---- MODULE Spec2Model ----
(***************************************************************************)
(* State model of react-sommelier/src/App.js: the App component's three    *)
(* useState cells (activeTab, inputValue, messages), the reply timers that *)
(* handleSend schedules with setTimeout, and the summary line CellarView   *)
(* derives from its slot list.                                             *)
(*                                                                         *)
(* A text is a sequence of tokens.  A typed draft is a sequence of         *)
(* one-character tokens drawn from Chars; each literal string of the       *)
(* source is a one-token sequence holding that literal.                    *)
(***************************************************************************)
EXTENDS Integers, Sequences, FiniteSets, TLC

(* ------------------------------ bounds --------------------------------- *)

\* Spec: longest draft the user types, and successful sends per session
MaxLen == 2
MaxSendsText == 1

\* RapidSpec: the same two, with more sends of shorter drafts
MaxLenRapid == 1
MaxSends == 2

\* CellarSpec: longest slot list given to CellarView
MaxSlots == 6

(* ------------------------------ inputs --------------------------------- *)

\* characters String.prototype.trim strips, and one it keeps
Whitespace == {" "}
Chars == Whitespace \cup {"a"}

Drafts(maxLen) == UNION {[1..n -> Chars] : n \in 0..maxLen}

\* keys delivered to the input field's onKeyPress
Keys == {"Enter", "a"}

Tabs == {"chat", "profile", "cellar"}

(* --------------------------- pure functions ---------------------------- *)

RECURSIVE TrimStart(_)
TrimStart(s) ==
    IF s # <<>> /\ Head(s) \in Whitespace THEN TrimStart(Tail(s)) ELSE s

RECURSIVE TrimEnd(_)
TrimEnd(s) ==
    IF s # <<>> /\ s[Len(s)] \in Whitespace
    THEN TrimEnd(SubSeq(s, 1, Len(s) - 1))
    ELSE s

\* String.prototype.trim
Trim(s) == TrimEnd(TrimStart(s))

\* JavaScript truthiness of a string: every string but "" is truthy
Truthy(s) == s # <<>>

\* a draft that keeps whitespace-only text out only when it is empty
SendableUntrimmed(draft) == Truthy(draft)

\* the test both handleSend (negated, early return) and handleKeyPress make
Sendable(draft) == Truthy(Trim(draft))

\* the object handleSend appends
UserMessage(draft) == [sender |-> "user", text |-> draft]

\* the object the timer callback appends
BotReply ==
    [sender |-> "bot",
     text |-> <<"Vielen Dank für Ihre Anfrage. Ich analysiere gerade die besten Optionen für Sie...">>]

Barolo ==
    [name |-> "Barolo DOCG 2018", region |-> "Piemont, Italien",
     grape |-> "Nebbiolo", points |-> 94,
     description |-> "Die Struktur dieses Rotweins harmoniert ausgezeichnet mit der Intensität des Fleisches. Die samtigen Tannine umschmeicheln die reichhaltigen Aromen des Gerichts.",
     price |-> "€78"]

Chateauneuf ==
    [name |-> "Châteauneuf-du-Pape 2019", region |-> "Rhône, Frankreich",
     grape |-> "Grenache, Syrah", points |-> 92,
     description |-> "Die Fülle des Weins steht im perfekten Gleichgewicht mit der Aromatik Ihrer Speise. Dabei stehen Wein und Speise in perfekter Balance zueinander.",
     price |-> "€52"]

\* a seed whose answer lost its recommendations
SeedWithoutWines ==
    << [sender |-> "bot",
        text |-> <<"Guten Abend! Ich bin Ihr persönlicher Sommelier. Wie darf ich Ihnen heute behilflich sein?">>],
       [sender |-> "user",
        text |-> <<"Ich suche einen Rotwein zu einem Rinderfilet.">>],
       [sender |-> "bot",
        text |-> <<"Eine ausgezeichnete Wahl! Zu einem Rinderfilet empfehle ich Ihnen kräftige Rotweine mit guter Tanninstruktur. Hier sind meine Empfehlungen:">>] >>

\* the argument of useState for messages
SeedMessages ==
    << [sender |-> "bot",
        text |-> <<"Guten Abend! Ich bin Ihr persönlicher Sommelier. Wie darf ich Ihnen heute behilflich sein?">>],
       [sender |-> "user",
        text |-> <<"Ich suche einen Rotwein zu einem Rinderfilet.">>],
       [sender |-> "bot",
        text |-> <<"Eine ausgezeichnete Wahl! Zu einem Rinderfilet empfehle ich Ihnen kräftige Rotweine mit guter Tanninstruktur. Hier sind meine Empfehlungen:">>,
        wines |-> <<Barolo, Chateauneuf>>] >>

\* the slots constant of CellarView
CellarSlots ==
    << [filled |-> TRUE], [filled |-> TRUE], [filled |-> FALSE],
       [filled |-> TRUE], [filled |-> FALSE], [filled |-> TRUE],
       [filled |-> FALSE], [filled |-> TRUE], [filled |-> FALSE] >>

SlotLists ==
    UNION {[1..n -> [filled : BOOLEAN]] : n \in 0..MaxSlots} \cup {CellarSlots}

IsFilled(s) == s.filled
IsEmpty(s) == ~s.filled

\* slots.filter(s => s.filled).length
FilledCount(sl) == Len(SelectSeq(sl, IsFilled))

\* an empty count that repeats the filled predicate
EmptyCountSamePredicate(sl) == Len(SelectSeq(sl, IsFilled))

\* slots.filter(s => !s.filled).length
EmptyCount(sl) == Len(SelectSeq(sl, IsEmpty))

\* the numbers CellarView puts in its cellar-summary line
CellarSummary(sl) ==
    [filledCount |-> FilledCount(sl), emptyCount |-> EmptyCount(sl)]

\* no CellarView is mounted
NoSummary == [filledCount |-> -1, emptyCount |-> -1]

(* ------------------------------- state --------------------------------- *)

VARIABLES
    activeTab,     \* useState('chat')
    inputValue,    \* useState('')
    messages,      \* useState([...seed...])
    timers,        \* pending setTimeout callbacks, oldest first; each holds
                   \* the newMessages its closure captured
    slots,         \* the slot list CellarView renders
    summary,       \* the counts in the mounted CellarView, or NoSummary
    last,          \* history: the handler that ran last and its argument
    selected,      \* history: the tab id of the last tab click, or "none"
    sends,         \* history: per pending timer, the message list as it
                   \* stood right after its send and whether no other timer
                   \* was pending then
    hist           \* history: the successful sends and the timer expiries,
                   \* in order

vars == <<activeTab, inputValue, messages, timers, slots, summary,
          last, selected, sends, hist>>

IsSend(e) == e = "send"
Sent == Len(SelectSeq(hist, IsSend))

Did(op, arg) == [op |-> op, arg |-> arg]

(* ------------------------------ actions -------------------------------- *)

Init ==
    /\ activeTab = "chat"
    /\ inputValue = <<>>
    /\ messages = SeedMessages
    /\ timers = <<>>
    /\ slots = CellarSlots
    /\ summary = NoSummary
    /\ last = Did("init", "")
    /\ selected = "none"
    /\ sends = <<>>
    /\ hist = <<>>

\* a callback that reads the live list instead of its captured one
TimerResultLive(t) == Append(messages, BotReply)

\* a callback whose captured list is the one from before the user message
TimerResultStale(t) ==
    Append(SubSeq(t.newMessages, 1, Len(t.newMessages) - 1), BotReply)

\* what the timer callback passes to setMessages
TimerResult(t) == Append(t.newMessages, BotReply)

\* handleSend; maxSends bounds the successful sends of a session
HandleSend(maxSends) ==
    IF ~Sendable(inputValue)
    THEN UNCHANGED <<messages, inputValue, timers, sends, hist>>
    ELSE /\ Sent < maxSends
         /\ LET newMessages == Append(messages, UserMessage(inputValue)) IN
              /\ messages' = newMessages
              /\ inputValue' = <<>>
              /\ timers' = Append(timers, [newMessages |-> newMessages])
              /\ sends' = Append(sends, [after |-> newMessages,
                                         alone |-> timers = <<>>])
         /\ hist' = Append(hist, "send")

\* a tab click that returns to the chat tab when the tab is already active
SelectTabToggle(t) ==
    /\ activeTab' = IF activeTab = t THEN "chat" ELSE t
    /\ summary' = IF activeTab' = "cellar" THEN CellarSummary(slots)
                                            ELSE NoSummary
    /\ last' = Did("selectTab", activeTab)
    /\ selected' = t
    /\ UNCHANGED <<inputValue, messages, timers, slots, sends, hist>>

\* onClick of a tab button, and the render of the view it selects
SelectTab(t) ==
    /\ activeTab' = t
    /\ summary' = IF t = "cellar" THEN CellarSummary(slots) ELSE NoSummary
    /\ last' = Did("selectTab", activeTab)
    /\ selected' = t
    /\ UNCHANGED <<inputValue, messages, timers, slots, sends, hist>>

\* onChange of the input field; the field exists while ChatView is mounted
SetDraft(text) ==
    /\ activeTab = "chat"
    /\ inputValue' = text
    /\ last' = Did("setDraft", "")
    /\ UNCHANGED <<activeTab, messages, timers, slots, summary, selected,
                   sends, hist>>

\* onClick of the send button
SendClick(maxSends) ==
    /\ activeTab = "chat"
    /\ HandleSend(maxSends)
    /\ last' = Did("sendClick", "")
    /\ UNCHANGED <<activeTab, slots, summary, selected>>

\* handleKeyPress
KeyPress(key, maxSends) ==
    /\ activeTab = "chat"
    /\ IF key = "Enter" /\ Sendable(inputValue)
       THEN HandleSend(maxSends)
       ELSE UNCHANGED <<messages, inputValue, timers, sends, hist>>
    /\ last' = Did("keyPress", key)
    /\ UNCHANGED <<activeTab, slots, summary, selected>>

\* a timer expiry that also resets the input field
TimerFireClearsDraft ==
    /\ timers # <<>>
    /\ messages' = TimerResult(Head(timers))
    /\ timers' = Tail(timers)
    /\ inputValue' = <<>>
    /\ sends' = Tail(sends)
    /\ hist' = Append(hist, "expire")
    /\ last' = Did("timer", "")
    /\ UNCHANGED <<activeTab, slots, summary, selected>>

\* expiry of the oldest pending timer: every delay is 1000, so the timers
\* expire in the order they were set
TimerFire ==
    /\ timers # <<>>
    /\ messages' = TimerResult(Head(timers))
    /\ timers' = Tail(timers)
    /\ sends' = Tail(sends)
    /\ hist' = Append(hist, "expire")
    /\ last' = Did("timer", "")
    /\ UNCHANGED <<activeTab, inputValue, slots, summary, selected>>

(* --------------------------- specifications ---------------------------- *)

Next ==
    \/ \E t \in Tabs : SelectTab(t)
    \/ \E text \in Drafts(MaxLen) : SetDraft(text)
    \/ SendClick(MaxSendsText)
    \/ \E key \in Keys : KeyPress(key, MaxSendsText)
    \/ TimerFire

Spec == Init /\ [][Next]_vars

RapidNext ==
    \/ \E t \in Tabs : SelectTab(t)
    \/ \E text \in Drafts(MaxLenRapid) : SetDraft(text)
    \/ SendClick(MaxSends)
    \/ \E key \in Keys : KeyPress(key, MaxSends)
    \/ TimerFire

RapidSpec == Init /\ [][RapidNext]_vars

\* the event loop runs the callback of a timer that is due
RapidFairSpec == RapidSpec /\ WF_vars(TimerFire)

\* CellarView applied to every slot list up to MaxSlots, and to its own
CellarInit ==
    /\ activeTab = "chat"
    /\ inputValue = <<>>
    /\ messages = SeedMessages
    /\ timers = <<>>
    /\ slots \in SlotLists
    /\ summary = NoSummary
    /\ last = Did("init", "")
    /\ selected = "none"
    /\ sends = <<>>
    /\ hist = <<>>

CellarNext == \E t \in Tabs : SelectTab(t)

CellarSpec == CellarInit /\ [][CellarNext]_vars

(* ------------------------------ properties ----------------------------- *)

SeedLen == Len(SeedMessages)

IsPrefix(s, t) == Len(s) <= Len(t) /\ SubSeq(t, 1, Len(s)) = s

IsBlank(s) == \A i \in 1..Len(s) : s[i] \in Whitespace

HasWines(m) == "wines" \in DOMAIN m

\* the step is a send attempt: the send button, or the Enter key
SendAttempt == last'.op = "sendClick" \/ last' = Did("keyPress", "Enter")

\* C1: after two sends of which the second came before the first one's
\* timer expired, and both expiries, the list is the seed and four new
\* entries: the two user messages and two bot replies, each reply after the
\* user message of its send.
C1_TwoRapidSends ==
    hist = <<"send", "send", "expire", "expire">> =>
        /\ Len(messages) = SeedLen + 4
        /\ IsPrefix(SeedMessages, messages)
        /\ messages[SeedLen + 1].sender = "user"
        /\ messages[SeedLen + 2].sender = "user"
        /\ messages[SeedLen + 3] = BotReply
        /\ messages[SeedLen + 4] = BotReply

\* C2: the message list is append-only: in every step the list before the
\* step is a prefix of the list after it.
C2_AppendOnly == [][IsPrefix(messages, messages')]_vars

\* the one pending timer belongs to a send made while no timer was pending
SinglePending == Len(sends) = 1 /\ Head(sends).alone

\* C3: when the timer of a single send (no other send pending before or
\* after it) expires, exactly one message is appended, it is the fixed
\* acknowledgment without wines, and it lies behind the user message of that
\* send, whatever tab clicks and draft edits came in between; and under the
\* event loop's fairness that expiry does come.
C3_SingleSendReply ==
    /\ [][(last'.op = "timer" /\ SinglePending) =>
            /\ messages' = Append(messages, BotReply)
            /\ ~HasWines(messages'[Len(messages')])
            /\ messages'[Len(messages')].sender = "bot"
            /\ Len(Head(sends).after) < Len(messages')
            /\ messages'[Len(Head(sends).after)].sender = "user"
            /\ messages'[Len(Head(sends).after)] =
                   Head(sends).after[Len(Head(sends).after)]]_vars
    /\ (SinglePending ~> last.op = "timer")

\* a single send whose reply arrived on another tab, with text typed since
C3_Witness ==
    /\ hist = <<"send", "expire">>
    /\ last.op = "timer"
    /\ activeTab = "profile"
    /\ inputValue # <<>>
    /\ Len(messages) = SeedLen + 2
    /\ messages[SeedLen + 1].sender = "user"
    /\ messages[SeedLen + 2] = BotReply

\* C4: a send attempt (button or Enter) on an empty or whitespace-only draft
\* changes neither the message list, the draft, the active tab nor the
\* pending timers.
C4_BlankSendNoOp ==
    [][(SendAttempt /\ IsBlank(inputValue)) =>
          UNCHANGED <<messages, inputValue, activeTab, timers>>]_vars

\* the send button was clicked on a draft of whitespace, which is kept
C4_Witness ==
    /\ last.op = "sendClick"
    /\ inputValue # <<>>
    /\ IsBlank(inputValue)

\* C5: a send of a draft that is not blank appends exactly one user message
\* whose text is the draft without its leading and trailing whitespace, and
\* empties the draft.
C5_SendAppendsTrimmed ==
    [][(SendAttempt /\ ~IsBlank(inputValue)) =>
          /\ messages' = Append(messages,
                                [sender |-> "user", text |-> Trim(inputValue)])
          /\ inputValue' = <<>>]_vars

\* C6: the active tab is one of the three tabs and equals the tab of the
\* last tab click, and a click on the tab that is already active changes
\* nothing of the state.
C6_SelectTab ==
    /\ [](activeTab \in Tabs /\ (selected # "none" => activeTab = selected))
    /\ [][(last'.op = "selectTab" /\ selected' = activeTab) =>
             UNCHANGED <<activeTab, inputValue, messages, timers, summary>>]_vars

\* the active tab was clicked again, after another tab had been active
C6_Witness ==
    /\ last = Did("selectTab", "cellar")
    /\ selected = "cellar"
    /\ activeTab = "cellar"

\* C7: before any action the list holds three messages from bot, user, bot,
\* only the third carries wines and carries two, the draft is empty, no
\* timer is pending and the chat tab is active.
C7_SeedState ==
    last.op = "init" =>
        /\ Len(messages) = 3
        /\ <<messages[1].sender, messages[2].sender, messages[3].sender>>
               = <<"bot", "user", "bot">>
        /\ ~HasWines(messages[1])
        /\ ~HasWines(messages[2])
        /\ HasWines(messages[3])
        /\ Len(messages[3].wines) = 2
        /\ inputValue = <<>>
        /\ timers = <<>>
        /\ activeTab = "chat"

C7_Witness == last.op = "init" /\ Len(messages) = 3 /\ hist = <<>>

\* C8: the summary of a mounted CellarView counts the slots with filled =
\* TRUE and those with filled = FALSE, the two counts add up to the number
\* of slots, and for the view's own nine slots they are 5 and 4.
C8_CellarCounts ==
    summary # NoSummary =>
        /\ summary.filledCount =
               Cardinality({i \in 1..Len(slots) : slots[i].filled})
        /\ summary.emptyCount =
               Cardinality({i \in 1..Len(slots) : ~slots[i].filled})
        /\ summary.filledCount + summary.emptyCount = Len(slots)
        /\ slots = CellarSlots =>
               summary.filledCount = 5 /\ summary.emptyCount = 4

C8_Witness ==
    /\ activeTab = "cellar"
    /\ slots = CellarSlots
    /\ summary = [filledCount |-> 5, emptyCount |-> 4]

\* C9: only a tab click changes the active tab; a tab click leaves the
\* list, the draft and the timers alone; a draft edit leaves the list and
\* the timers alone; a timer expiry leaves the draft alone.
C9_Frame ==
    [][/\ last'.op # "selectTab" => activeTab' = activeTab
       /\ last'.op = "selectTab" => UNCHANGED <<messages, inputValue, timers>>
       /\ last'.op = "setDraft" => UNCHANGED <<messages, timers>>
       /\ last'.op = "timer" => inputValue' = inputValue]_vars

\* a reply arrived while typed text stood in the input field
C9_Witness ==
    /\ last.op = "timer"
    /\ inputValue # <<>>
    /\ activeTab = "chat"

\* C10: a timer expiry sets the list to the list as it stood right after
\* the timer's own send, followed by the fixed reply.
C10_TimerWritesSnapshot ==
    [][(last'.op = "timer" /\ sends # <<>>) =>
          messages' = Append(Head(sends).after, BotReply)]_vars

\* the first of two overlapping timers expired and the second user message
\* is gone from the list
C10_Witness ==
    /\ hist = <<"send", "send", "expire">>
    /\ last.op = "timer"
    /\ Len(messages) = SeedLen + 2
    /\ messages[SeedLen + 2] = BotReply

====
